---- MODULE Spec2Model ----
(***************************************************************************)
(* Signal generator (src/src/main.rs): the phase accumulator Signal, the   *)
(* Silence source, the four shape functions, the quantizer adjust_volume   *)
(* and the three composition modes plain, combo and modulate writing to a  *)
(* hound::WavWriter.                                                       *)
(*                                                                         *)
(* Every f32 of the program is a record [s, m, e] standing for             *)
(* (-1)^s * m * 2^e with m = 0 or 2^23 <= m < 2^24, and every f32          *)
(* operation rounds to nearest, ties to even, as IEEE-754 single           *)
(* precision does.  The exponent is not bounded: no value of the model     *)
(* comes near the f32 exponent limits, and NaN and the infinities are not  *)
(* among the inputs.  The arithmetic is written as functions, f[x], so     *)
(* that an argument is a value before the function body reads it.          *)
(***************************************************************************)
EXTENDS Integers, Sequences, FiniteSets, TLC

(***************************************************************************)
(* Single precision arithmetic                                             *)
(***************************************************************************)

\* f32 carries a 24 bit significand
MantBits == 24

F32 == [s : {0, 1}, m : Nat, e : Int]

Pow2[n \in Int] == IF n <= 0 THEN 1 ELSE 2 * Pow2[n - 1]

BitLen[M \in Nat] == IF M = 0 THEN 0 ELSE 1 + BitLen[M \div 2]

Zero == [s |-> 0, m |-> 0, e |-> 0]

\* the rounding of M + f, an integer of n > 24 bits and a fraction f: M loses its
\* k = n - 24 low bits
RoundOff[s \in {0, 1}, M \in Nat, e \in Int, sticky \in BOOLEAN, k \in Nat] ==
    LET q  == M \div Pow2[k]
        r  == M % Pow2[k]
        up == r > Pow2[k - 1] \/ (r = Pow2[k - 1] /\ (sticky \/ q % 2 = 1))
    IN  IF up /\ q + 1 = Pow2[MantBits]
        THEN [s |-> s, m |-> Pow2[MantBits - 1], e |-> e + k + 1]
        ELSE [s |-> s, m |-> IF up THEN q + 1 ELSE q, e |-> e + k]

\* M, an integer of n <= 24 bits, normalised
Normal[s \in {0, 1}, M \in Nat, e \in Int, n \in Nat] ==
    [s |-> s, m |-> M * Pow2[MantBits - n], e |-> e - (MantBits - n)]

\* the f32 nearest to (-1)^s * (M + f) * 2^e, where 0 < f < 1 if sticky and
\* f = 0 otherwise; ties go to the even significand
RoundNE[s \in {0, 1}, M \in Nat, e \in Int, sticky \in BOOLEAN] ==
    IF M = 0 THEN Zero
    ELSE IF BitLen[M] <= MantBits THEN Normal[s, M, e, BitLen[M]]
    ELSE RoundOff[s, M, e, sticky, BitLen[M] - MantBits]

\* an integer literal, or an integer converted with `as f32`
FromInt[i \in Int] == IF i < 0 THEN RoundNE[1, -i, 0, FALSE] ELSE RoundNE[0, i, 0, FALSE]

One == FromInt[1]

FNeg[a \in F32] == IF a.m = 0 THEN Zero ELSE [a EXCEPT !.s = 1 - a.s]

\* a * b: the 48 bit product of the significands is hi * 2^24 + lo
FMul[a \in F32, b \in F32] ==
    IF a.m = 0 \/ b.m = 0 THEN Zero
    ELSE LET H   == Pow2[MantBits \div 2]
             W   == Pow2[MantBits]
             mid == (a.m \div H) * (b.m % H) + (a.m % H) * (b.m \div H)
             low == (a.m % H) * (b.m % H) + (mid % H) * H
             hi  == (a.m \div H) * (b.m \div H) + (mid \div H) + (low \div W)
             G   == Pow2[MantBits - 6]
         IN  RoundNE[(a.s + b.s) % 2, hi * 64 + ((low % W) \div G),
                     a.e + b.e + (MantBits - 6), (low % W) % G # 0]

\* k more bits of the quotient of r / d, after the bits q
LongDiv[r \in Nat, d \in Nat, k \in Nat, q \in Nat] ==
    IF k = 0 THEN <<q, r>>
    ELSE IF 2 * r >= d THEN LongDiv[2 * r - d, d, k - 1, 2 * q + 1]
                       ELSE LongDiv[2 * r, d, k - 1, 2 * q]

\* the quotient <<q, r>> rounded
RoundQuot[s \in {0, 1}, qr \in Nat \X Nat, e \in Int] == RoundNE[s, qr[1], e, qr[2] # 0]

\* a / b, b nonzero
FDiv[a \in F32, b \in F32] ==
    IF a.m = 0 THEN Zero
    ELSE RoundQuot[(a.s + b.s) % 2, LongDiv[a.m % b.m, b.m, MantBits + 2, a.m \div b.m],
                   a.e - b.e - (MantBits + 2)]

\* |a| < |b|
MagLt[a \in F32, b \in F32] ==
    IF a.m = 0 THEN b.m # 0
    ELSE IF b.m = 0 THEN FALSE
    ELSE a.e < b.e \/ (a.e = b.e /\ a.m < b.m)

\* a < b
FLt[a \in F32, b \in F32] ==
    IF a.s # b.s THEN a.s = 1
    ELSE IF a.s = 0 THEN MagLt[a, b] ELSE MagLt[b, a]

\* a >= b
FGe[a \in F32, b \in F32] == ~FLt[a, b]

\* a <= b
FLe[a \in F32, b \in F32] == ~FLt[b, a]

\* x + y for nonzero x, y with |x| >= |y|, on three guard bits
AddOrdered[x \in F32, y \in F32] ==
    LET d  == x.e - y.e
        B  == IF d >= MantBits + 3 THEN 0 ELSE (y.m * 8) \div Pow2[d]
        st == IF d >= MantBits + 3 THEN TRUE ELSE (y.m * 8) % Pow2[d] # 0
    IN  IF x.s = y.s
        THEN RoundNE[x.s, x.m * 8 + B, x.e - 3, st]
        ELSE RoundNE[x.s, x.m * 8 - B - (IF st THEN 1 ELSE 0), x.e - 3, st]

\* a + b
FAdd[a \in F32, b \in F32] ==
    IF a.m = 0 THEN b
    ELSE IF b.m = 0 THEN a
    ELSE IF MagLt[a, b] THEN AddOrdered[b, a] ELSE AddOrdered[a, b]

\* a - b
FSub[a \in F32, b \in F32] == FAdd[a, FNeg[b]]

\* the f32 a decimal literal p/q parses to (p, q integers below 2^24)
Dec[p \in Int, q \in Int] == FDiv[FromInt[p], FromInt[q]]

(***************************************************************************)
(* Integer types.  A u32 is a pair <<hi, lo>> of 16 bit limbs, so that     *)
(* u32::MAX is a value of the model.                                       *)
(***************************************************************************)

Limb == Pow2[16]

U32(i) == <<i \div Limb, i % Limb>>

U32Max == <<Limb - 1, Limb - 1>>

U32Lt(a, b) == a[1] < b[1] \/ (a[1] = b[1] /\ a[2] < b[2])

U32Ge(a, b) == ~U32Lt(a, b)

\* a + 1
U32Inc(a) == IF a[2] = Limb - 1 THEN <<(a[1] + 1) % Limb, 0>> ELSE <<a[1], a[2] + 1>>

\* the value of a u32 known to lie below 2^31
U32Val(a) == a[1] * Limb + a[2]

\* `x as u32`: truncation toward zero, saturating at 0 and u32::MAX
TruncU32[x \in F32] ==
    IF x.m = 0 \/ x.s = 1 THEN U32(0)
    ELSE IF x.e > 32 - MantBits THEN U32Max
    ELSE IF x.e >= 0
         THEN <<x.m \div Pow2[16 - x.e], (x.m % Pow2[16 - x.e]) * Pow2[x.e]>>
    ELSE IF -x.e >= MantBits THEN U32(0)
    ELSE U32(x.m \div Pow2[-x.e])

\* truncation toward zero of an x with |x| < 2^31
TruncInt[x \in F32] ==
    LET v == IF x.e >= 0 THEN x.m * Pow2[x.e]
             ELSE IF -x.e >= MantBits THEN 0
             ELSE x.m \div Pow2[-x.e]
    IN  IF x.s = 1 THEN -v ELSE v

\* `x as usize` for the x the model reaches (all below 2^31; usize is 64 bits wide)
TruncUsize[x \in F32] == IF x.s = 1 THEN 0 ELSE TruncInt[x]

\* std::i16::MAX
I16Max == 32767

\* `x as i16`: truncation toward zero, saturating at i16::MIN and i16::MAX
TruncI16[x \in F32] ==
    IF x.m # 0 /\ x.e > 16 - MantBits
    THEN (IF x.s = 1 THEN -I16Max - 1 ELSE I16Max)
    ELSE TruncInt[x]

(***************************************************************************)
(* Shape functions                                                         *)
(***************************************************************************)

Shape == {"Saw", "Sine", "Square", "Triangle"}

Half == Dec[1, 2]

\* the assertion every shape function opens with
InDomain[x \in F32] == FGe[x, Zero] /\ FLt[x, One]

\* f32::sin of 2*PI*x is a routine of the standard library; it is represented by
\* Bhaskara's rational approximation 16y/(5-4y), y = u(1-u), of sin(PI*u), which
\* is exact at the zeros and the extrema and, like sin, never leaves [-1, 1]
Bhaskara[y \in F32] == FDiv[FMul[FromInt[16], y], FSub[FromInt[5], FMul[FromInt[4], y]]]

SinHalfTurn[u \in F32] == Bhaskara[FMul[u, FSub[One, u]]]

gen_sine[x \in F32] ==
    IF FLt[x, Half] THEN SinHalfTurn[FMul[FromInt[2], x]]
    ELSE FNeg[SinHalfTurn[FSub[FMul[FromInt[2], x], One]]]

gen_square[x \in F32] == IF FLt[x, Half] THEN One ELSE FNeg[One]

gen_saw[x \in F32] == FSub[FMul[FromInt[2], x], One]

gen_triangle[x \in F32] ==
    IF FLt[x, Half] THEN FSub[One, FMul[FromInt[4], x]]
    ELSE FSub[FMul[FromInt[4], x], FromInt[3]]

\* Shape::func applied to x
func(shape, x) ==
    CASE shape = "Saw" -> gen_saw[x]
      [] shape = "Sine" -> gen_sine[x]
      [] shape = "Square" -> gen_square[x]
      [] shape = "Triangle" -> gen_triangle[x]

(***************************************************************************)
(* Signal: the phase accumulator                                           *)
(***************************************************************************)

\* the first assertion of Signal::new that fails, or "none"
SignalNewAssert(sample_rate, freq, duration, phase) ==
    IF ~FGe[duration, Zero] THEN "duration"
    ELSE IF ~FLt[Zero, FromInt[sample_rate]] THEN "rate"
    ELSE IF ~(FLt[Zero, freq] /\ FLt[freq, FromInt[sample_rate]]) THEN "freq"
    ELSE IF ~(FGe[phase, Zero] /\ FLt[phase, FromInt[360]]) THEN "phase"
    ELSE "none"

\* Signal::new without the scaling of the phase by sample_rate
SignalNewUnscaled(sample_rate, freq, duration, phase) ==
    [curr_tick   |-> U32(0),
     last_tick   |-> TruncU32[FMul[duration, FromInt[sample_rate]]],
     ts          |-> FDiv[phase, FromInt[360]],
     sample_rate |-> FromInt[sample_rate],
     freq        |-> freq]

SignalNew(sample_rate, freq, duration, phase) ==
    [curr_tick   |-> U32(0),
     last_tick   |-> TruncU32[FMul[duration, FromInt[sample_rate]]],
     ts          |-> FDiv[FMul[phase, FromInt[sample_rate]], FromInt[360]],
     sample_rate |-> FromInt[sample_rate],
     freq        |-> freq]

None == [some |-> FALSE, val |-> Zero]

Some(v) == [some |-> TRUE, val |-> v]

\* lines 88-90 without the subtraction
WrapNever(self) == self.ts

\* lines 88-90: the accumulator after the wrap
Wrap(self) ==
    IF FGe[self.ts, self.sample_rate] THEN FSub[self.ts, self.sample_rate] ELSE self.ts

\* Signal::next with `>` for `>=` in the test of line 84
SignalNextLate(self) ==
    IF U32Lt(self.last_tick, self.curr_tick)
    THEN [sig |-> self, item |-> None]
    ELSE [sig  |-> [self EXCEPT !.curr_tick = U32Inc(self.curr_tick),
                                !.ts = FAdd[Wrap(self), self.freq]],
          item |-> Some(FDiv[Wrap(self), self.sample_rate])]

\* Signal::next: the signal after the call and the item returned
SignalNext(self) ==
    IF U32Ge(self.curr_tick, self.last_tick)
    THEN [sig |-> self, item |-> None]
    ELSE [sig  |-> [self EXCEPT !.curr_tick = U32Inc(self.curr_tick),
                                !.ts = FAdd[Wrap(self), self.freq]],
          item |-> Some(FDiv[Wrap(self), self.sample_rate])]

(***************************************************************************)
(* Silence                                                                 *)
(***************************************************************************)

SilenceNewAssert(sample_rate, duration) ==
    IF ~FGe[duration, Zero] THEN "duration"
    ELSE IF ~FLt[Zero, FromInt[sample_rate]] THEN "rate"
    ELSE "none"

SilenceNew(sample_rate, duration) ==
    [curr_tick |-> U32(0),
     last_tick |-> TruncU32[FMul[duration, FromInt[sample_rate]]]]

\* Silence::next: the source after the call and whether it returned Some(0)
SilenceNext(self) ==
    IF U32Ge(self.curr_tick, self.last_tick)
    THEN [sil |-> self, some |-> FALSE]
    ELSE [sil |-> [self EXCEPT !.curr_tick = U32Inc(self.curr_tick)], some |-> TRUE]

(***************************************************************************)
(* Quantizer                                                               *)
(***************************************************************************)

\* the assertion of adjust_volume
InRange[x \in F32] == FGe[x, FNeg[One]] /\ FLe[x, One]

\* adjust_volume with max_ampl one too large
adjust_volume_wide(x) == TruncI16[FMul[x, FromInt[I16Max + 1]]]

adjust_volume(x) == TruncI16[FMul[x, FromInt[I16Max]]]

(***************************************************************************)
(* State                                                                   *)
(***************************************************************************)

VARIABLES
    cfg,      \* the arguments of the call: mode, rate, dur1, dur2, freq1, freq2,
              \* phase (plain's phase, combo's shift), shape1, shape2
    pc,       \* where the call stands
    panic,    \* the assertion that failed, or "none"
    writer,   \* hound::WavWriter: "none", "open" or "closed" (dropped)
    opens,    \* calls of WavWriter::create so far
    out,      \* the samples write_sample has accepted, in order
    chan_l,   \* plain, combo: chan_l; modulate: s1; a Signal driven alone: the Signal
    chan_r,   \* plain, combo: chan_r; modulate: s2
    sil,      \* combo: the Silence of the current repetition
    n,        \* combo: the repetition index
    item,     \* the last item Signal::next returned to a direct caller
    emitted,  \* how many of its items were Some
    idle      \* how many were None

vars == <<cfg, pc, panic, writer, opens, out, chan_l, chan_r, sil, n, item, emitted, idle>>

NoSignal == [curr_tick |-> U32(0), last_tick |-> U32(0), ts |-> Zero,
             sample_rate |-> Zero, freq |-> Zero]

NoSilence == [curr_tick |-> U32(0), last_tick |-> U32(0)]

(***************************************************************************)
(* Arguments                                                               *)
(***************************************************************************)

\* the largest f32 below a positive x
Pred[x \in F32] ==
    IF x.m = Pow2[MantBits - 1] THEN [x EXCEPT !.m = Pow2[MantBits] - 1, !.e = x.e - 1]
    ELSE [x EXCEPT !.m = x.m - 1]

PlainArgs ==
    [mode : {"plain"}, rate : {0, 4, 10},
     dur1 : {FromInt[-1], Dec[7, 10], One}, dur2 : {Zero},
     freq1 : {Zero, One, Dec[3, 2], FromInt[4]}, freq2 : {Zero},
     phase : {FromInt[-90], Zero, FromInt[90], FromInt[360]},
     shape1 : Shape, shape2 : {"Sine"}]

ComboArgs ==
    [mode : {"combo"}, rate : {0, 2},
     dur1 : {FromInt[-1], One}, dur2 : {FromInt[-1], Half},
     freq1 : {Zero, One}, freq2 : {Zero},
     phase : {FromInt[-90], Zero, FromInt[90], Dec[360, 7], FromInt[400]},
     shape1 : Shape, shape2 : {"Sine"}]

ModulateArgs ==
    [mode : {"modulate"}, rate : {0, 4, 10},
     dur1 : {FromInt[-1], Dec[7, 10]}, dur2 : {Zero},
     freq1 : {Zero, One}, freq2 : {Dec[3, 2], FromInt[4]},
     phase : {Zero},
     shape1 : Shape, shape2 : Shape]

\* combo calls with a phase step of 0.00001 and 0.00002 degrees and tone and
\* silence durations of 0, paired with a repetition index to enter the loop at
LongComboArgs ==
    {<<[mode |-> "combo", rate |-> 2, dur1 |-> Zero, dur2 |-> Zero, freq1 |-> One,
        freq2 |-> Zero, phase |-> Dec[1, 100000], shape1 |-> "Sine",
        shape2 |-> "Sine"], 35999996>>,
     <<[mode |-> "combo", rate |-> 2, dur1 |-> Zero, dur2 |-> Zero, freq1 |-> One,
        freq2 |-> Zero, phase |-> Dec[1, 50000], shape1 |-> "Saw",
        shape2 |-> "Sine"], 17999997>>}

\* Signal::new(rate, freq1, dur1, phase) for a Signal driven alone: durations of
\* 0, 0.7, 1 and 2^30 seconds, frequencies of 0.1, 1, 2.5, 3 Hz and the largest
\* one below the sample rate, phases of 0, 1, 90, 120 degrees and the largest
\* one below 360
TickArgs ==
    {c \in [mode : {"tick"}, rate : {1, 3, 4, 10},
            dur1 : {Zero, Dec[7, 10], One, FromInt[Pow2[30]]}, dur2 : {Zero},
            freq1 : {Dec[1, 10], One, Dec[5, 2], FromInt[3]} \cup
                    {Pred[FromInt[r]] : r \in {1, 3, 4, 10}},
            freq2 : {Zero},
            phase : {Zero, One, FromInt[90], FromInt[120], Pred[FromInt[360]]},
            shape1 : {"Sine"}, shape2 : {"Sine"}] :
        /\ SignalNewAssert(c.rate, c.freq1, c.dur1, c.phase) = "none"
        /\ c.freq1 = Pred[FromInt[c.rate]] => c.phase \in {Zero, Pred[FromInt[360]]}}

(***************************************************************************)
(* The three modes                                                         *)
(***************************************************************************)

Blank ==
    /\ panic = "none"
    /\ writer = "none"
    /\ opens = 0
    /\ out = <<>>
    /\ chan_l = NoSignal
    /\ chan_r = NoSignal
    /\ sil = NoSilence
    /\ n = 0
    /\ item = None
    /\ emitted = 0
    /\ idle = 0

\* the call is entered
InitCall ==
    /\ cfg \in PlainArgs \cup ComboArgs \cup ModulateArgs
    /\ pc = "start"
    /\ Blank

\* combo at the head of repetition k of a call that has written nothing: each of
\* its repetitions 0 .. k-1 built both Signals (shift * n grows with n and passes
\* the phase assertion at k), found them and the Silence empty, and wrote nothing
InitLongCombo ==
    \E a \in LongComboArgs :
        /\ cfg = a[1]
        /\ pc = "combo_for"
        /\ panic = "none"
        /\ writer = "open"
        /\ opens = 1
        /\ out = <<>>
        /\ chan_l = NoSignal
        /\ chan_r = NoSignal
        /\ sil = NoSilence
        /\ n = a[2]
        /\ item = None
        /\ emitted = 0
        /\ idle = 0

Init == InitCall \/ InitLongCombo

\* an assertion fails: the call unwinds, dropping the writer if it holds one
Panic(why) ==
    /\ pc' = "panic"
    /\ panic' = why
    /\ writer' = IF writer = "open" THEN "closed" ELSE writer

\* a return that keeps the writer
ReturnKeeping(how) ==
    /\ pc' = how
    /\ UNCHANGED <<writer, panic>>

\* the call returns: Ok(()) or the hound::Error; the writer is dropped
Return(how) ==
    /\ pc' = how
    /\ writer' = IF writer = "open" THEN "closed" ELSE writer
    /\ UNCHANGED panic

Signals == [curr_tick : Nat \X Nat, last_tick : Nat \X Nat, ts : F32,
            sample_rate : F32, freq : F32]

Steps == [sig : Signals, item : [some : BOOLEAN, val : F32]]

\* adjust_volume on the amplitude v: the sample, or its assertion fails
Quantized[v \in F32] ==
    IF InRange[v] THEN [fault |-> "none", val |-> adjust_volume(v)]
    ELSE [fault |-> "volume", val |-> 0]

\* .map(shape.func()).map(adjust_volume) on the phase t: the sample, or the
\* assertion that fails
Mapped[shape \in Shape, t \in F32] ==
    IF InDomain[t] THEN Quantized[func(shape, t)]
    ELSE [fault |-> "domain", val |-> 0]

\* the item of a mapped source, from the step a of its Signal
ChanItem[a \in Steps, shape \in Shape] ==
    IF a.item.some
    THEN [sig |-> a.sig, some |-> TRUE] @@ Mapped[shape, a.item.val]
    ELSE [sig |-> a.sig, some |-> FALSE, fault |-> "none", val |-> 0]

\* Signal::next through .map(shape.func()).map(adjust_volume)
ChanNext(sig, shape) == ChanItem[SignalNext(sig), shape]

Chans == [sig : Signals, some : BOOLEAN, fault : STRING, val : Int]

\* the item of the zip from the steps a and b of its two sources; r is the
\* right source before the call
ZipItem[a \in Chans, b \in Chans, r \in Signals] ==
    IF ~a.some \/ a.fault # "none"
    THEN [l |-> a.sig, r |-> r, some |-> FALSE, fault |-> a.fault, lv |-> 0, rv |-> 0]
    ELSE [l |-> a.sig, r |-> b.sig, some |-> b.some /\ b.fault = "none",
          fault |-> b.fault, lv |-> a.val, rv |-> b.val]

\* chan_l.zip(chan_r): the left source is asked first, the right one only if the
\* left one gave an item
ZipNext(l, r, shape) == ZipItem[ChanNext(l, shape), ChanNext(r, shape), r]

\* the outcomes of the two write_sample calls of one frame: both succeed, the
\* first fails, the second fails
Writes == {"ok", "first", "second"}

\* the two write_sample calls in the other order
WriteFrameSwapped(x, y, w) ==
    /\ out' = CASE w = "ok" -> out \o <<y, x>>
                [] w = "first" -> out
                [] w = "second" -> out \o <<y>>
    /\ IF w = "ok" THEN UNCHANGED <<pc, panic, writer>> ELSE Return("err")

\* writer.write_sample(x)?; writer.write_sample(y)?;
WriteFrame(x, y, w) ==
    /\ out' = CASE w = "ok" -> out \o <<x, y>>
                [] w = "first" -> out
                [] w = "second" -> out \o <<x>>
    /\ IF w = "ok" THEN UNCHANGED <<pc, panic, writer>> ELSE Return("err")

\* plain, lines 146-151: both Signals are built
PlainStart ==
    /\ pc = "start"
    /\ cfg.mode = "plain"
    /\ LET fl == SignalNewAssert(cfg.rate, cfg.freq1, cfg.dur1, Zero)
           fr == SignalNewAssert(cfg.rate, cfg.freq1, cfg.dur1, cfg.phase)
       IN  IF fl # "none" THEN Panic(fl) /\ UNCHANGED <<chan_l, chan_r>>
           ELSE IF fr # "none" THEN Panic(fr) /\ UNCHANGED <<chan_l, chan_r>>
           ELSE /\ chan_l' = SignalNew(cfg.rate, cfg.freq1, cfg.dur1, Zero)
                /\ chan_r' = SignalNew(cfg.rate, cfg.freq1, cfg.dur1, cfg.phase)
                /\ pc' = "create"
                /\ UNCHANGED <<panic, writer>>
    /\ UNCHANGED <<cfg, opens, out, sil, n, item, emitted, idle>>

\* hound::WavWriter::create(file, wav_spec)?
Create ==
    /\ pc = "create"
    /\ opens' = opens + 1
    /\ \E ok \in BOOLEAN :
          IF ok
          THEN /\ writer' = "open"
               /\ pc' = CASE cfg.mode = "plain" -> "plain_loop"
                          [] cfg.mode = "combo" -> "combo_for"
                          [] cfg.mode = "modulate" -> "modulate_loop"
               /\ UNCHANGED panic
          ELSE Return("err")
    /\ UNCHANGED <<cfg, out, chan_l, chan_r, sil, n, item, emitted, idle>>

\* plain, lines 153-157: one turn of the loop
PlainFrame ==
    /\ pc = "plain_loop"
    /\ \E z \in {ZipNext(chan_l, chan_r, cfg.shape1)} :
           /\ chan_l' = z.l
           /\ chan_r' = z.r
           /\ IF z.fault # "none" THEN Panic(z.fault) /\ UNCHANGED out
              ELSE IF ~z.some THEN Return("ok") /\ UNCHANGED out
              ELSE \E w \in Writes : WriteFrame(z.lv, z.rv, w)
    /\ UNCHANGED <<cfg, opens, sil, n, item, emitted, idle>>

\* combo, line 169
ComboStart ==
    /\ pc = "start"
    /\ cfg.mode = "combo"
    /\ IF FLt[Zero, cfg.phase]
       THEN pc' = "create" /\ UNCHANGED <<panic, writer>>
       ELSE Panic("shift")
    /\ UNCHANGED <<cfg, opens, out, chan_l, chan_r, sil, n, item, emitted, idle>>

\* (360.0 / shift) as usize
Repeats(shift) == TruncUsize[FDiv[FromInt[360], shift]]

\* combo, lines 177-183: the head of the for loop
ComboFor ==
    /\ pc = "combo_for"
    /\ IF n < Repeats(cfg.phase)
       THEN \E ph \in {FMul[cfg.phase, FromInt[n]]} :
              LET fl == SignalNewAssert(cfg.rate, cfg.freq1, cfg.dur1, Zero)
                  fr == SignalNewAssert(cfg.rate, cfg.freq1, cfg.dur1, ph)
              IN  IF fl # "none" THEN Panic(fl) /\ UNCHANGED <<chan_l, chan_r>>
                  ELSE IF fr # "none" THEN Panic(fr) /\ UNCHANGED <<chan_l, chan_r>>
                  ELSE /\ chan_l' = SignalNew(cfg.rate, cfg.freq1, cfg.dur1, Zero)
                       /\ chan_r' = SignalNew(cfg.rate, cfg.freq1, cfg.dur1, ph)
                       /\ pc' = "combo_tone"
                       /\ UNCHANGED <<panic, writer>>
       ELSE Return("ok") /\ UNCHANGED <<chan_l, chan_r>>
    /\ UNCHANGED <<cfg, opens, out, sil, n, item, emitted, idle>>

\* combo, lines 184-188: one turn of the tone loop; when the zip ends the
\* Silence is built
ComboTone ==
    /\ pc = "combo_tone"
    /\ \E z \in {ZipNext(chan_l, chan_r, cfg.shape1)},
          fs \in {SilenceNewAssert(cfg.rate, cfg.dur2)} :
           /\ chan_l' = z.l
           /\ chan_r' = z.r
           /\ IF z.fault # "none" THEN Panic(z.fault) /\ UNCHANGED <<out, sil>>
              ELSE IF z.some THEN (\E w \in Writes : WriteFrame(z.lv, z.rv, w)) /\ UNCHANGED sil
              ELSE IF fs # "none" THEN Panic(fs) /\ UNCHANGED <<out, sil>>
              ELSE /\ sil' = SilenceNew(cfg.rate, cfg.dur2)
                   /\ pc' = "combo_silence"
                   /\ UNCHANGED <<panic, writer, out>>
    /\ UNCHANGED <<cfg, opens, n, item, emitted, idle>>

\* combo, lines 188-192: one turn of the silence loop; when it ends the
\* repetition is over
ComboSilence ==
    /\ pc = "combo_silence"
    /\ \E a \in {SilenceNext(sil)} :
           /\ sil' = a.sil
           /\ IF a.some
              THEN (\E w \in Writes : WriteFrame(0, 0, w)) /\ UNCHANGED n
              ELSE /\ n' = n + 1
                   /\ pc' = "combo_for"
                   /\ UNCHANGED <<panic, writer, out>>
    /\ UNCHANGED <<cfg, opens, chan_l, chan_r, item, emitted, idle>>

\* modulate, lines 211-212
ModulateStart ==
    /\ pc = "start"
    /\ cfg.mode = "modulate"
    /\ LET f1 == SignalNewAssert(cfg.rate, cfg.freq1, cfg.dur1, Zero)
           f2 == SignalNewAssert(cfg.rate, cfg.freq2, cfg.dur1, Zero)
       IN  IF f1 # "none" THEN Panic(f1) /\ UNCHANGED <<chan_l, chan_r>>
           ELSE IF f2 # "none" THEN Panic(f2) /\ UNCHANGED <<chan_l, chan_r>>
           ELSE /\ chan_l' = SignalNew(cfg.rate, cfg.freq1, cfg.dur1, Zero)
                /\ chan_r' = SignalNew(cfg.rate, cfg.freq2, cfg.dur1, Zero)
                /\ pc' = "create"
                /\ UNCHANGED <<panic, writer>>
    /\ UNCHANGED <<cfg, opens, out, sil, n, item, emitted, idle>>

\* line 214 with shape1 applied to both phases
ProductOfOneShape(shape1, shape2, x, y) ==
    IF InDomain[x] /\ InDomain[y] THEN Quantized[FMul[func(shape1, x), func(shape1, y)]]
    ELSE [fault |-> "domain", val |-> 0]

\* line 214: adjust_volume(shape1.func()(x) * shape2.func()(y)), or the
\* assertion that fails
Product(shape1, shape2, x, y) ==
    IF InDomain[x] /\ InDomain[y] THEN Quantized[FMul[func(shape1, x), func(shape2, y)]]
    ELSE [fault |-> "domain", val |-> 0]

\* the item of s1.zip(s2).map(func) from the steps a and b of s1 and s2
ModulateItem[a \in Steps, b \in Steps, s2 \in Signals, shape1 \in Shape, shape2 \in Shape] ==
    IF ~a.item.some
    THEN [l |-> a.sig, r |-> s2, some |-> FALSE, fault |-> "none", val |-> 0]
    ELSE IF ~b.item.some
    THEN [l |-> a.sig, r |-> b.sig, some |-> FALSE, fault |-> "none", val |-> 0]
    ELSE [l |-> a.sig, r |-> b.sig] @@
         [some |-> Product(shape1, shape2, a.item.val, b.item.val).fault = "none"] @@
         Product(shape1, shape2, a.item.val, b.item.val)

\* s1.zip(s2).map(func), lines 214-215: s1 is asked first, s2 only if s1 gave an
\* item
ModulateNext(s1, s2, shape1, shape2) == ModulateItem[SignalNext(s1), SignalNext(s2), s2, shape1, shape2]

\* modulate, lines 215-219: one turn of the loop
ModulateFrame ==
    /\ pc = "modulate_loop"
    /\ \E z \in {ModulateNext(chan_l, chan_r, cfg.shape1, cfg.shape2)} :
           /\ chan_l' = z.l
           /\ chan_r' = z.r
           /\ IF z.fault # "none" THEN Panic(z.fault) /\ UNCHANGED out
              ELSE IF ~z.some THEN Return("ok") /\ UNCHANGED out
              ELSE \E w \in Writes : WriteFrame(z.val, z.val, w)
    /\ UNCHANGED <<cfg, opens, sil, n, item, emitted, idle>>

Next ==
    \/ PlainStart
    \/ ComboStart
    \/ ModulateStart
    \/ Create
    \/ PlainFrame
    \/ ComboFor
    \/ ComboTone
    \/ ComboSilence
    \/ ModulateFrame

Spec == Init /\ [][Next]_vars

(***************************************************************************)
(* A Signal driven alone: next() is called until the Signal is exhausted,  *)
(* and then again                                                          *)
(***************************************************************************)

\* calls made on an exhausted Signal
MaxIdle == 2

\* items taken from one Signal
MaxEmit == 12

InitTick ==
    /\ cfg \in TickArgs
    /\ pc = "tick"
    /\ panic = "none"
    /\ writer = "none"
    /\ opens = 0
    /\ out = <<>>
    /\ chan_l = SignalNew(cfg.rate, cfg.freq1, cfg.dur1, cfg.phase)
    /\ chan_r = NoSignal
    /\ sil = NoSilence
    /\ n = 0
    /\ item = None
    /\ emitted = 0
    /\ idle = 0

\* one call of Signal::next
Tick ==
    /\ pc = "tick"
    /\ idle < MaxIdle
    /\ emitted < MaxEmit
    /\ \E a \in {SignalNext(chan_l)} :
          /\ chan_l' = a.sig
          /\ item' = a.item
          /\ emitted' = IF a.item.some THEN emitted + 1 ELSE emitted
          /\ idle' = IF a.item.some THEN idle ELSE idle + 1
    /\ UNCHANGED <<cfg, pc, panic, writer, opens, out, chan_r, sil, n>>

NextTick == Tick

SpecTick == InitTick /\ [][NextTick]_vars

(***************************************************************************)
(* The Tick source (SpecTick)                                              *)
(***************************************************************************)

\* floor(duration * rate) of the real product, as <<hi, lo>> with lo a 16 bit
\* limb and hi not bounded
ExactTicks(duration, rate) ==
    LET P == duration.m * rate
        v == IF -duration.e > 30 THEN 0 ELSE P \div Pow2[-duration.e]
    IN  IF duration.e >= 0
        THEN <<P \div Pow2[16 - duration.e], (P % Pow2[16 - duration.e]) * Pow2[duration.e]>>
        ELSE <<v \div Limb, v % Limb>>

\* the length Signal::new gives the source: the single precision product
\* duration * rate, truncated, and clamped to u32::MAX
TicksTotal(duration, rate) == TruncU32[FMul[duration, FromInt[rate]]]

\* what a Signal driven alone has in common whatever its length is taken to be
TickCount(total) ==
    /\ chan_l.last_tick = total
    /\ chan_l.curr_tick = U32(emitted)
    /\ U32Ge(total, U32(emitted))
    /\ (idle = 0 /\ emitted > 0) => item.some
    /\ idle > 0 => (~item.some /\ U32(emitted) = total)

\* C1 as stated: a Signal yields exactly floor(duration * sample_rate) values, its
\* counter never exceeds that total, and every later request returns None
C1_FloorOfProduct == pc = "tick" => TickCount(ExactTicks(cfg.dur1, cfg.rate))

\* C1 amended: a Signal yields exactly as many values as the single precision
\* product duration * sample_rate, truncated and clamped to 2^32 - 1, says; its
\* counter is the number of values yielded and never exceeds that total, and
\* every request on the exhausted Signal returns None and yields nothing more
C1_TicksThenNone == pc = "tick" => TickCount(TicksTotal(cfg.dur1, cfg.rate))

\* 0.7 s at 10 Hz: seven values, then None twice
C1_Exhausted ==
    /\ pc = "tick"
    /\ cfg.dur1 = Dec[7, 10]
    /\ cfg.rate = 10
    /\ emitted = 7
    /\ idle = 2
    /\ ~item.some

\* C2: every value a Signal emits is a normalized phase in [0, 1), and one
\* conditional subtraction of sample_rate brings the accumulator into
\* [0, sample_rate) before it is divided
C2_PhaseInUnitInterval ==
    pc = "tick" =>
        /\ item.some => InDomain[item.val]
        /\ FGe[Wrap(chan_l), Zero]
        /\ FLt[Wrap(chan_l), chan_l.sample_rate]

\* a value was emitted after the accumulator had reached sample_rate and wrapped,
\* and the accumulator has reached sample_rate again
C2_Wrapped ==
    /\ pc = "tick"
    /\ item.some
    /\ emitted >= 3
    /\ FGe[chan_l.ts, chan_l.sample_rate]
    /\ FLt[item.val, cfg.freq1]
    /\ cfg.freq1 = Pred[FromInt[cfg.rate]]

\* x is an integer below 2^24
IsInt(x) == x.s = 0 /\ x.e >= -MantBits /\ x.e <= 0 /\ FromInt[TruncInt[x]] = x

\* the arguments are integers
IntArgs == IsInt(cfg.freq1) /\ IsInt(cfg.phase)

\* the arguments are integers and so is the accumulator offset phase * rate / 360:
\* every sum and difference the accumulator takes is exact
ExactArgs == IntArgs /\ (TruncInt[cfg.phase] * cfg.rate) % 360 = 0

\* the f32 nearest to fract(frequency * k / sample_rate + phase_offset / 360), for
\* integer arguments
IndexPhase(k) ==
    FDiv[FromInt[(TruncInt[cfg.freq1] * k * 360 + TruncInt[cfg.phase] * cfg.rate)
                    % (360 * cfg.rate)],
         FromInt[360 * cfg.rate]]

Over == pc \in {"ok", "err", "panic"}

\* an invalid configuration: a negative duration, a sample rate <= 0, a frequency
\* outside (0, sample_rate), a phase outside [0, 360), a phase step <= 0
InvalidArgs ==
    \/ FLt[cfg.dur1, Zero]
    \/ cfg.mode = "combo" /\ FLt[cfg.dur2, Zero]
    \/ cfg.rate <= 0
    \/ ~(FLt[Zero, cfg.freq1] /\ FLt[cfg.freq1, FromInt[cfg.rate]])
    \/ cfg.mode = "modulate" /\ ~(FLt[Zero, cfg.freq2] /\ FLt[cfg.freq2, FromInt[cfg.rate]])
    \/ cfg.mode = "plain" /\ ~(FGe[cfg.phase, Zero] /\ FLt[cfg.phase, FromInt[360]])
    \/ cfg.mode = "combo" /\ ~FLt[Zero, cfg.phase]

\* C3: in each mode an invalid configuration is detected before anything is
\* written: the call writes no sample and does not return Ok
C3_InvalidWritesNothing == InvalidArgs => (out = <<>> /\ pc # "ok")

\* the length of the Tick sources of a tone, and of the Silence
ToneFrames == U32Val(TicksTotal(cfg.dur1, cfg.rate))

\* floor(duration * rate) of the real product
FloorFrames == U32Val(ExactTicks(cfg.dur1, cfg.rate))

SilenceFrames == U32Val(TicksTotal(cfg.dur2, cfg.rate))

NthItem[sig \in Signals, i \in Nat] ==
    IF i <= 1 THEN SignalNext(sig).item.val ELSE NthItem[SignalNext(sig).sig, i - 1]

IsPrefix(a, b) == Len(a) <= Len(b) /\ \A i \in 1 .. Len(a) : a[i] = b[i]

\* quantize(shape(l_i)), quantize(shape(r_i)) for i = 1 .. floor(duration * rate),
\* l and r the Tick sources with phase offsets 0 and phase
PlainSamples ==
    [i \in 1 .. 2 * ToneFrames |->
        IF i % 2 = 1
        THEN adjust_volume(func(cfg.shape1,
                 NthItem[SignalNew(cfg.rate, cfg.freq1, cfg.dur1, Zero), (i + 1) \div 2]))
        ELSE adjust_volume(func(cfg.shape1,
                 NthItem[SignalNew(cfg.rate, cfg.freq1, cfg.dur1, cfg.phase), i \div 2]))]

\* C5 as stated: plain writes the frames quantize(shape(l_i)), quantize(shape(r_i))
\* in order, left sample first, and exactly floor(duration * rate) of them
C5_FloorFrames ==
    (cfg.mode = "plain" /\ ~InvalidArgs) =>
        /\ IsPrefix(out, PlainSamples)
        /\ pc = "ok" => Len(out) = 2 * FloorFrames

\* C5 amended: plain writes the frames quantize(shape(l_i)), quantize(shape(r_i)) in
\* order, left sample first, and exactly as many of them as its Tick sources are
\* long when it returns Ok; it fails on a failed write alone
C5_PlainFrames ==
    (cfg.mode = "plain" /\ ~InvalidArgs) =>
        /\ IsPrefix(out, PlainSamples)
        /\ pc = "ok" => out = PlainSamples
        /\ pc # "panic"

\* 0.7 s of a 1 Hz saw at 10 Hz, a quarter turn apart: seven frames, all written
C5_PlainDone ==
    /\ cfg.mode = "plain"
    /\ pc = "ok"
    /\ cfg.shape1 = "Saw"
    /\ cfg.phase = FromInt[90]
    /\ cfg.freq1 = One
    /\ cfg.rate = 10
    /\ cfg.dur1 = Dec[7, 10]
    /\ Len(out) = 14
    /\ out[1] = -I16Max
    /\ out[2] = -16383
    /\ out[11] = 0

\* quantize(shape_1(p1_i) * shape_2(p2_i)), twice, for i = 1 .. floor(duration *
\* rate), p1 and p2 the Tick sources of frequency_1 and frequency_2
ModulateSamples ==
    [i \in 1 .. 2 * ToneFrames |->
        adjust_volume(FMul[
            func(cfg.shape1,
                 NthItem[SignalNew(cfg.rate, cfg.freq1, cfg.dur1, Zero), (i + 1) \div 2]),
            func(cfg.shape2,
                 NthItem[SignalNew(cfg.rate, cfg.freq2, cfg.dur1, Zero), (i + 1) \div 2])])]

\* C6 as stated: modulate writes quantize(shape_1(p1_i) * shape_2(p2_i)) to both
\* channels of frame i, and exactly floor(duration * rate) frames
C6_FloorProductFrames ==
    (cfg.mode = "modulate" /\ ~InvalidArgs) =>
        /\ IsPrefix(out, ModulateSamples)
        /\ pc = "ok" => Len(out) = 2 * FloorFrames

\* C6 amended: modulate writes quantize(shape_1(p1_i) * shape_2(p2_i)) to both
\* channels of frame i, exactly as many frames as its Tick sources are long when
\* it returns Ok, and its two sources have the same length
C6_ModulateFrames ==
    (cfg.mode = "modulate" /\ ~InvalidArgs) =>
        /\ IsPrefix(out, ModulateSamples)
        /\ pc = "ok" => out = ModulateSamples
        /\ pc # "panic"
        /\ chan_l.last_tick = chan_r.last_tick

\* 0.7 s of a 1 Hz saw times a 1.5 Hz triangle at 10 Hz: seven frames, all written
C6_ModulateDone ==
    /\ cfg.mode = "modulate"
    /\ pc = "ok"
    /\ cfg.shape1 = "Saw"
    /\ cfg.shape2 = "Triangle"
    /\ cfg.freq2 = Dec[3, 2]
    /\ cfg.rate = 10
    /\ Len(out) = 14
    /\ out[1] = -I16Max
    /\ out[3] = out[4]
    /\ out[3] # out[1]
    /\ out[3] # 0

\* C7: the sink is opened at most once, before any sample is written, and exactly
\* once by a call that returns; it is open only while the call runs its loops;
\* once the call is over, on Ok, on a failed create or write, or on a panic, the
\* sink is released and nothing more is done
C7_SinkScoped ==
    /\ opens <= 1
    /\ out # <<>> => opens = 1
    /\ writer # "none" => opens = 1
    /\ pc \in {"ok", "err"} => opens = 1
    /\ writer = "open" <=> pc \in {"plain_loop", "combo_for", "combo_tone",
                                   "combo_silence", "modulate_loop"}
    /\ Over => ~ENABLED Next

\* the second write of the second frame failed: three samples are in the sink,
\* the call returned the error and the sink is released
C7_FailedWrite ==
    /\ pc = "err"
    /\ Len(out) = 3
    /\ writer = "closed"
    /\ opens = 1
    /\ chan_l.curr_tick = U32(2)

\* C9: the assertion of adjust_volume never fails, and every sample written lies
\* in [-32767, 32767]
C9_SamplesInRange ==
    /\ panic # "volume"
    /\ \A i \in 1 .. Len(out) : out[i] >= -I16Max /\ out[i] <= I16Max

\* modulate has multiplied two saws: the first product, of -1 and -1, is written
\* at full scale, and a negative product is written later
C9_FullScale ==
    /\ cfg.mode = "modulate"
    /\ cfg.shape1 = "Saw"
    /\ cfg.shape2 = "Saw"
    /\ pc = "ok"
    /\ Len(out) = 14
    /\ out[1] = I16Max
    /\ \E i \in 1 .. Len(out) : out[i] < 0

\* C10: at the head of every repetition n < floor(360 / phase_step) of combo the
\* right channel's phase offset phase_step * n lies in [0, 360), and combo never
\* fails the phase assertion of Signal::new
C10_ComboPhaseInRange ==
    (cfg.mode = "combo" /\ FLt[Zero, cfg.phase]) =>
        /\ panic # "phase"
        /\ (pc = "combo_for" /\ n < Repeats(cfg.phase)) =>
              (FGe[FMul[cfg.phase, FromInt[n]], Zero]
                 /\ FLt[FMul[cfg.phase, FromInt[n]], FromInt[360]])

====
